---- MODULE Spec2Model ----
(***************************************************************************)
(* A model of XcmWallet (src/unnamed/part_001): the balance / fee /        *)
(* transfer resolution pipeline of the cross-chain wallet.                  *)
(*                                                                          *)
(* Every await of the TypeScript code is a step boundary: an action is the *)
(* synchronous code between two awaits.  The running call keeps its        *)
(* position, arguments and locals in op, pc, args and loc; `trace' records,*)
(* in order, every call it makes to an external collaborator.  `outer' is  *)
(* getSourceData around its steps, `sub' a subscribeBalance call and its   *)
(* stream, `parked' a second call suspended at an await, `conv' a decimal  *)
(* conversion.                                                             *)
(*                                                                          *)
(* Amounts are bigints: they are kept as sequences of decimal digits, most *)
(* significant first, so that 18-decimal values keep their full width.     *)
(***************************************************************************)
EXTENDS Integers, Sequences, FiniteSets, TLC

VARIABLES evmChains, evmCliets, op, pc, args, loc, trace, result, outer, conv,
          sub, parked

vars == <<evmChains, evmCliets, op, pc, args, loc, trace, result, outer, conv,
          sub, parked>>

\* what no step of a balance or fee call touches
others == <<outer, conv, sub, parked>>

----------------------------------------------------------------------------
(* Bigint arithmetic on digit sequences *)

Zeros(k) == [i \in 1..k |-> 0]

RECURSIVE Normalize(_)
Normalize(ds) ==
    IF ds = <<>> THEN <<0>>
    ELSE IF Head(ds) = 0 /\ Len(ds) > 1 THEN Normalize(Tail(ds))
    ELSE ds

PadRight(ds, k) ==
    IF Len(ds) >= k THEN SubSeq(ds, 1, k) ELSE ds \o Zeros(k - Len(ds))

\* toBigInt(amount, decimals): amount * 10^decimals, rounded down.
toBigInt(dec, decimals) == Normalize(dec.int \o PadRight(dec.frac, decimals))

\* toDecimal(number, decimals, decimals): number / 10^decimals, exactly.
toDecimal(n, decimals) ==
    LET padded == IF Len(n) > decimals THEN n
                  ELSE Zeros(decimals + 1 - Len(n)) \o n
        cut    == Len(padded) - decimals
    IN  [int |-> SubSeq(padded, 1, cut), frac |-> SubSeq(padded, cut + 1, Len(padded))]

convertDecimalsUnscaled(n, decimals, targetDecimals) == n

convertDecimals(n, decimals, targetDecimals) ==
    toBigInt(toDecimal(n, decimals), targetDecimals)

EvmDecimals == 18

----------------------------------------------------------------------------
(* The chain / asset directory *)

Chains == {"chainA", "chainB"}
Assets == {"X", "Y"}
Addresses == {"alice"}

\* CallType of @moonbeam-network/xcm-builder
Evm == "Evm"
Substrate == "Substrate"
CallTypes == {Evm, Substrate}

isEvmParachain(chain) == chain = "chainB"

NoDecimals == -1

\* PolkadotService.getAssetDecimals: the asset's decimals on that chain
AssetDecimals(chain, asset) ==
    CASE chain = "chainA" /\ asset = "X" -> 12
      [] chain = "chainA" /\ asset = "Y" -> 10
      [] chain = "chainB" /\ asset = "X" -> 18
      [] OTHER -> NoDecimals

\* the native currency of a chain, in which its execution fees are paid
NativeAsset(chain) == "X"

getBalanceAssetId(chain, asset) == <<"balanceId", chain, asset>>
getAssetId(chain, asset) == <<"assetId", chain, asset>>
getAssetPalletInstance(chain, asset) == <<"pallet", chain, asset>>

----------------------------------------------------------------------------
(* Values *)

NoAmount == <<>>
NoAssetAmount == [asset |-> "none", amount |-> NoAmount, decimals |-> NoDecimals]
NoBalance == [key |-> "none", balance |-> NoAmount]
NoTransfer == [type |-> "none", builder |-> "none"]
NoConfig == [type |-> "none", address |-> "none", asset |-> <<>>]

\* AssetAmount.fromAsset(asset, {amount, decimals})
AssetAmountFromAsset(asset, amount, decimals) ==
    [asset |-> asset, amount |-> amount, decimals |-> decimals]

Num(prefix, zeros) == prefix \o Zeros(zeros)

\* Raw balances a resolver can report
RawBalances == {<<0>>, <<1, 5, 0, 0>>}
\* Raw fees an estimator can report: 21_000_000_000_000_000 and 1_234_567
RawFees == {Num(<<2, 1>>, 15), <<1, 2, 3, 4, 5, 6, 7>>}
\* Values a dynamic destination-fee descriptor can produce
DynFees == {<<7>>, <<4, 2>>}
\* Fixed destination fees of the route table: 5.0 and 0.25
FixedFees == {[int |-> <<5>>, frac |-> <<>>], [int |-> <<0>>, frac |-> <<2, 5>>]}
NoDecimal == [int |-> <<>>, frac |-> <<>>]

----------------------------------------------------------------------------
(* Route configurations (TransferConfig of @moonbeam-network/xcm-config) *)

NoFee == [present |-> FALSE, asset |-> "none", balance |-> "none"]
FeeConfigs ==
    {NoFee} \cup [present : {TRUE}, asset : Assets, balance : CallTypes]

\* destinationFee.amount: a number (finite or not) or a FeeConfigBuilder
DestinationFeeAmounts ==
    [kind : {"number"}, value : FixedFees]
        \cup {[kind |-> "nonfinite", value |-> NoDecimal],
              [kind |-> "builder", value |-> NoDecimal]}

AssetConfigs ==
    [balance : CallTypes,
     fee : FeeConfigs,
     destinationFee : [amount : DestinationFeeAmounts, asset : Assets],
     extrinsic : BOOLEAN,
     contract : BOOLEAN]

TransferConfigs ==
    {tc \in [source : [chain : Chains, config : AssetConfigs],
             destination : [chain : Chains],
             asset : Assets] :
        tc.source.chain # tc.destination.chain}

NoTransferConfig ==
    [source |-> [chain |-> "none",
                 config |-> [balance |-> "none", fee |-> NoFee,
                             destinationFee |->
                                 [amount |-> [kind |-> "none", value |-> NoDecimal],
                                  asset |-> "none"],
                             extrinsic |-> FALSE, contract |-> FALSE]],
     destination |-> [chain |-> "none"],
     asset |-> "none"]

\* the routes the config service knows
Routes == TransferConfigs

\* balance.build({address, asset}): the built configuration carries the tag
BuildBalanceConfig(builder, address, assetId) ==
    [type |-> builder, address |-> address, asset |-> assetId]

----------------------------------------------------------------------------
(* Call frames *)

NoArgs ==
    [address |-> "none", transferConfig |-> NoTransferConfig, amount |-> NoAmount,
     dstAddress |-> "none", dstFee |-> NoAssetAmount]

NoLoc ==
    [balanceConfig |-> NoConfig, balance |-> NoBalance, feeAsset |-> "none",
     polkadot |-> "none", decimals |-> NoDecimals, transfer |-> NoTransfer]

NoResult == [status |-> "none", value |-> NoAssetAmount, error |-> "none"]

\* getSourceData is not running
NoOuter ==
    [op |-> "none", stage |-> "none", srcAddr |-> "none", dstAddr |-> "none",
     transferConfig |-> NoTransferConfig, resolved |-> 0, steps |-> <<>>,
     balance |-> NoAssetAmount, feeBalance |-> NoAssetAmount,
     destinationFee |-> NoAssetAmount, sourceFee |-> NoAssetAmount,
     console |-> <<>>, status |-> "none", error |-> "none",
     returned |-> [defined |-> FALSE, balance |-> NoAssetAmount,
                   feeBalance |-> NoAssetAmount, destinationFee |-> NoAssetAmount,
                   sourceFee |-> NoAssetAmount]]

\* no conversion under way
NoConv == [stage |-> "none", amount |-> [neg |-> FALSE, digits |-> NoAmount],
           from |-> 0, to |-> 0, there |-> NoAmount, back |-> NoAmount,
           error |-> "none"]

\* subscribeBalance has not been called
NoSub ==
    [phase |-> "idle", address |-> "none", chain |-> "none", chainConfig |-> <<>>,
     configs |-> <<>>, erc20Observables |-> <<>>, substrateObservables |-> <<>>,
     merged |-> <<>>, delivered |-> <<>>, updates |-> 0, late |-> 0,
     error |-> "none"]

\* the frame of a call that has not started
NoFrame ==
    [op |-> "none", pc |-> "idle", args |-> NoArgs, loc |-> NoLoc,
     trace |-> <<>>, result |-> NoResult]

Event(kind, detail) == [kind |-> kind, detail |-> detail]

\* the call returns `value'
Return(value) ==
    /\ pc' = "done"
    /\ result' = [status |-> "ok", value |-> value, error |-> "none"]

\* the call rejects with `error'
Throw(error) ==
    /\ pc' = "done"
    /\ result' = [status |-> "error", value |-> NoAssetAmount, error |-> error]

Init ==
    /\ evmChains \in SUBSET Chains
    /\ evmCliets = evmChains
    /\ op = "none"
    /\ pc = "idle"
    /\ args = NoArgs
    /\ loc = NoLoc
    /\ trace = <<>>
    /\ result = NoResult
    /\ outer = NoOuter
    /\ sub = NoSub
    /\ parked = NoFrame
    /\ conv = NoConv

\* the caller takes the settled promise; the orchestrator is idle again
Settle ==
    /\ pc = "done"
    /\ op' = "none"
    /\ pc' = "idle"
    /\ args' = NoArgs
    /\ loc' = NoLoc
    /\ trace' = <<>>
    /\ result' = NoResult
    /\ UNCHANGED <<others, evmChains, evmCliets>>

----------------------------------------------------------------------------
(* getErc20Balance / getSubstrateBalance *)

\* getEvmClient(chain): throws when no client was configured for the chain
HasEvmClient(chain) == chain \in evmCliets

\* getErc20Balance(asset, chain, config) up to its first await
Erc20BalanceCall(asset, chain, config) ==
    Event("resolver", [resolver |-> "erc20", key |-> asset, chain |-> chain,
                       config |-> config])

\* getSubstrateBalance(asset, chain, config) up to firstValueFrom
SubstrateBalanceCall(asset, chain, config) ==
    Event("resolver", [resolver |-> "substrate", key |-> asset, chain |-> chain,
                       config |-> config])

----------------------------------------------------------------------------
(* getBalance(address, transferConfig) *)

BalanceBranchByChain(balanceConfig, chain, asset) ==
    IF isEvmParachain(chain) THEN "erc20" ELSE "substrate"

\* the branch getBalance takes for a built balance configuration
BalanceBranch(balanceConfig, chain, asset) ==
    IF balanceConfig.type = Evm THEN "erc20" ELSE "substrate"

GetBalanceBegin(address, tc) ==
    LET chain == tc.source.chain
        asset == tc.asset
        assetId == getBalanceAssetId(chain, asset)
        balanceConfig == BuildBalanceConfig(tc.source.config.balance, address, assetId)
    IN  /\ op' = "getBalance"
        /\ args' = [NoArgs EXCEPT !.address = address, !.transferConfig = tc]
        /\ loc' = [NoLoc EXCEPT !.balanceConfig = balanceConfig]
        /\ IF BalanceBranch(balanceConfig, chain, asset) = "erc20"
           THEN /\ trace' = <<Erc20BalanceCall(asset, chain, balanceConfig)>>
                /\ IF HasEvmClient(chain)
                   THEN pc' = "gb_balance" /\ result' = NoResult
                   ELSE Throw("NoEvmConfiguration")
           ELSE /\ trace' = <<SubstrateBalanceCall(asset, chain, balanceConfig)>>
                /\ pc' = "gb_balance"
                /\ result' = NoResult

GetBalanceStart ==
    /\ pc = "idle"
    /\ \E address \in Addresses, tc \in Routes :
        GetBalanceBegin(address, tc)
    /\ UNCHANGED <<others, evmChains, evmCliets>>

\* firstValueFrom(balanceStream) settles: a Balance keyed by the asset the
\* stream was opened for, or a query failure
GetBalanceResolved ==
    /\ pc = "gb_balance"
    /\ op = "getBalance"
    /\ \/ \E b \in RawBalances :
            /\ loc' = [loc EXCEPT !.balance =
                          [key |-> trace[Len(trace)].detail.key, balance |-> b]]
            /\ pc' = "gb_decimals"
            /\ UNCHANGED result
       \/ /\ Throw("BalanceQueryError")
          /\ UNCHANGED loc
    /\ UNCHANGED <<others, evmChains, evmCliets, op, args, trace>>

BalanceChainDestination(tc) == tc.destination.chain

\* the chain whose directory getBalance resolves the decimals against
BalanceChain(tc) == tc.source.chain

GetBalanceFinish ==
    /\ pc = "gb_decimals"
    /\ op = "getBalance"
    /\ LET chain == BalanceChain(args.transferConfig)
           asset == args.transferConfig.asset
           decimals == AssetDecimals(chain, asset)
       IN  IF decimals = NoDecimals
           THEN Throw("AssetNotFoundError") /\ UNCHANGED loc
           ELSE /\ Return(AssetAmountFromAsset(asset, loc.balance.balance, decimals))
                /\ loc' = [loc EXCEPT !.polkadot = chain, !.decimals = decimals]
    /\ UNCHANGED <<others, evmChains, evmCliets, op, args, trace>>

----------------------------------------------------------------------------
(* getFeeBalance(address, transferConfig) *)

\* the asset whose balance id getFeeBalance puts into the fee balance query
\* and for which it opens the balance stream
FeeBalanceQueryAsset(tc) == tc.asset

GetFeeBalanceBegin(address, tc) ==
    LET chain == tc.source.chain
        asset == tc.asset
        assetId == getBalanceAssetId(chain, FeeBalanceQueryAsset(tc))
        assetConfig == tc.source.config
    IN  /\ op' = "getFeeBalance"
        /\ args' = [NoArgs EXCEPT !.address = address, !.transferConfig = tc]
        /\ result' = NoResult
        /\ IF assetConfig.fee.present
           THEN LET balanceConfig ==
                        BuildBalanceConfig(assetConfig.fee.balance, address, assetId)
                IN  /\ loc' = [NoLoc EXCEPT !.balanceConfig = balanceConfig,
                                            !.feeAsset = assetConfig.fee.asset]
                    /\ trace' = <<SubstrateBalanceCall(FeeBalanceQueryAsset(tc),
                                                       chain, balanceConfig)>>
                    /\ pc' = "gfb_balance"
           ELSE /\ loc' = [NoLoc EXCEPT !.feeAsset = asset,
                                        !.balance = [key |-> asset, balance |-> <<0>>]]
                /\ trace' = <<>>
                /\ pc' = "gfb_decimals"

GetFeeBalanceStart ==
    /\ pc = "idle"
    /\ \E address \in Addresses, tc \in Routes :
        GetFeeBalanceBegin(address, tc)
    /\ UNCHANGED <<others, evmChains, evmCliets>>

GetFeeBalanceResolved ==
    /\ pc = "gfb_balance"
    /\ op = "getFeeBalance"
    /\ \/ \E b \in RawBalances :
            /\ loc' = [loc EXCEPT !.balance =
                          [key |-> trace[Len(trace)].detail.key, balance |-> b]]
            /\ pc' = "gfb_decimals"
            /\ UNCHANGED result
       \/ /\ Throw("BalanceQueryError")
          /\ UNCHANGED loc
    /\ UNCHANGED <<others, evmChains, evmCliets, op, args, trace>>

FeeBalanceChainDestination(tc) == tc.destination.chain

\* the chain whose directory getFeeBalance resolves the decimals against
FeeBalanceChain(tc) == tc.source.chain

GetFeeBalanceFinish ==
    /\ pc = "gfb_decimals"
    /\ op = "getFeeBalance"
    /\ LET chain == FeeBalanceChain(args.transferConfig)
           decimals == AssetDecimals(chain, loc.feeAsset)
       IN  IF decimals = NoDecimals
           THEN Throw("AssetNotFoundError") /\ UNCHANGED loc
           ELSE /\ Return(AssetAmountFromAsset(loc.feeAsset, loc.balance.balance, decimals))
                /\ loc' = [loc EXCEPT !.polkadot = chain, !.decimals = decimals]
    /\ UNCHANGED <<others, evmChains, evmCliets, op, args, trace>>

----------------------------------------------------------------------------
(* getDestinationFee(transferConfig) *)

\* Number.isFinite(amount)
IsFinite(amount) == amount.kind = "number"

DestinationFeeChainSource(tc) == tc.source.chain

\* the chain PolkadotService.create is called for in getDestinationFee
DestinationFeeChain(tc) == tc.destination.chain

GetDestinationFeeBegin(tc) ==
    /\ op' = "getDestinationFee"
    /\ args' = [NoArgs EXCEPT !.transferConfig = tc]
    /\ loc' = [NoLoc EXCEPT !.polkadot = DestinationFeeChain(tc)]
    /\ trace' = <<Event("service", [chain |-> DestinationFeeChain(tc)])>>
    /\ pc' = "gdf_service"
    /\ result' = NoResult

GetDestinationFeeStart ==
    /\ pc = "idle"
    /\ \E tc \in Routes :
        GetDestinationFeeBegin(tc)
    /\ UNCHANGED <<others, evmChains, evmCliets>>

GetDestinationFeeResolve ==
    /\ pc = "gdf_service"
    /\ op = "getDestinationFee"
    /\ LET fee == args.transferConfig.source.config.destinationFee
           decimals == AssetDecimals(loc.polkadot, fee.asset)
       IN  IF decimals = NoDecimals
           THEN Throw("AssetNotFoundError") /\ UNCHANGED <<loc, trace>>
           ELSE /\ loc' = [loc EXCEPT !.decimals = decimals]
                /\ IF IsFinite(fee.amount)
                   THEN /\ Return(AssetAmountFromAsset(
                                fee.asset, toBigInt(fee.amount.value, decimals), decimals))
                        /\ UNCHANGED trace
                   ELSE IF fee.amount.kind # "builder"
                   THEN Throw("TypeError") /\ UNCHANGED trace
                   ELSE /\ trace' = Append(trace,
                                Event("feeCall", [api |-> loc.polkadot,
                                                  asset |-> getAssetId(loc.polkadot, fee.asset),
                                                  value |-> NoAmount]))
                        /\ pc' = "gdf_call"
                        /\ UNCHANGED result
    /\ UNCHANGED <<others, evmChains, evmCliets, op, args>>

\* feeConfig.call() settles with the fee the destination chain reports now
GetDestinationFeeFinish ==
    /\ pc = "gdf_call"
    /\ op = "getDestinationFee"
    /\ \/ \E v \in DynFees :
            /\ trace' = [trace EXCEPT ![Len(trace)].detail.value = v]
            /\ Return(AssetAmountFromAsset(
                   args.transferConfig.source.config.destinationFee.asset, v, loc.decimals))
       \/ /\ Throw("FeeQueryError")
          /\ UNCHANGED trace
    /\ UNCHANGED <<others, evmChains, evmCliets, op, args, loc>>

----------------------------------------------------------------------------
(* buildTransfer(amount, dstAddress, dstFee, transferConfig) *)

ExtrinsicParamsNoPallet(amount, dstAddress, dstFee, tc) ==
    [address |-> dstAddress,
     amount |-> amount,
     asset |-> getAssetId(tc.source.chain, tc.asset),
     destination |-> tc.destination.chain,
     fee |-> dstFee.amount,
     feeAsset |-> getAssetId(tc.source.chain, dstFee.asset),
     source |-> tc.source.chain]

ExtrinsicParams(amount, dstAddress, dstFee, tc) ==
    [address |-> dstAddress,
     amount |-> amount,
     asset |-> getAssetId(tc.source.chain, tc.asset),
     destination |-> tc.destination.chain,
     fee |-> dstFee.amount,
     feeAsset |-> getAssetId(tc.source.chain, dstFee.asset),
     palletInstance |-> getAssetPalletInstance(tc.source.chain, tc.asset),
     source |-> tc.source.chain]

ContractParams(amount, dstAddress, dstFee, tc) ==
    [address |-> dstAddress,
     amount |-> amount,
     asset |-> getAssetId(tc.source.chain, tc.asset),
     destination |-> tc.destination.chain,
     fee |-> dstFee.amount,
     feeAsset |-> getAssetId(tc.source.chain, dstFee.asset)]

SelectBuilderContractFirst(config) ==
    IF config.contract THEN "contract"
    ELSE IF config.extrinsic THEN "extrinsic"
    ELSE "none"

SelectBuilderNoCheck(config) ==
    IF config.extrinsic THEN "extrinsic" ELSE "contract"

\* which builder buildTransfer invokes: "extrinsic", "contract" or "none"
SelectBuilder(config) ==
    IF config.extrinsic THEN "extrinsic"
    ELSE IF config.contract THEN "contract"
    ELSE "none"

buildTransferNoThrow(amount, dstAddress, dstFee, tc) ==
    LET builder == SelectBuilder(tc.source.config)
        params  == IF builder = "extrinsic"
                   THEN ExtrinsicParams(amount, dstAddress, dstFee, tc)
                   ELSE ContractParams(amount, dstAddress, dstFee, tc)
        built   == [type |-> IF builder = "extrinsic" THEN Substrate ELSE Evm,
                    builder |-> builder, params |-> params]
    IN  [ok |-> TRUE,
         events |-> IF builder = "none" THEN <<>>
                    ELSE <<Event("builder", [builder |-> builder, params |-> params,
                                             built |-> built])>>,
         transfer |-> built,
         error |-> "none"]

\* The outcome of buildTransfer: the builder invocations it makes, and either
\* the built call (tagged Substrate by the extrinsic builder, Evm by the
\* contract builder) or the error it throws.
buildTransfer(amount, dstAddress, dstFee, tc) ==
    LET builder == SelectBuilder(tc.source.config)
        params  == IF builder = "extrinsic"
                   THEN ExtrinsicParams(amount, dstAddress, dstFee, tc)
                   ELSE ContractParams(amount, dstAddress, dstFee, tc)
        built   == [type |-> IF builder = "extrinsic" THEN Substrate ELSE Evm,
                    builder |-> builder, params |-> params]
    IN  IF builder = "none"
        THEN [ok |-> FALSE, events |-> <<>>, transfer |-> NoTransfer,
              error |-> "Either contract or extrinsic must be provided"]
        ELSE [ok |-> TRUE,
              events |-> <<Event("builder", [builder |-> builder, params |-> params,
                                             built |-> built])>>,
              transfer |-> built,
              error |-> "none"]

----------------------------------------------------------------------------
(* getSourceFee(amount, srcAddress, dstAddress, dstFee, transferConfig) *)

\* Arguments a caller passes
Amounts == {<<1, 5, 0, 0>>}
DstAddresses == {"bob"}
DstFees == [asset : Assets, amount : {<<7>>}, decimals : {12}]

GetSourceFeeBegin(amount, srcAddress, dstAddress, dstFee, tc) ==
    /\ op' = "getSourceFee"
    /\ args' = [address |-> srcAddress, transferConfig |-> tc, amount |-> amount,
                dstAddress |-> dstAddress, dstFee |-> dstFee]
    /\ loc' = [NoLoc EXCEPT !.polkadot = tc.source.chain]
    /\ trace' = <<Event("service", [chain |-> tc.source.chain])>>
    /\ pc' = "gsf_service"
    /\ result' = NoResult

GetSourceFeeStart ==
    /\ pc = "idle"
    /\ \E amount \in Amounts, srcAddress \in Addresses, dstAddress \in DstAddresses,
          dstFee \in DstFees, tc \in Routes :
        GetSourceFeeBegin(amount, srcAddress, dstAddress, dstFee, tc)
    /\ UNCHANGED <<others, evmChains, evmCliets>>

\* getAssetDecimals(dstFee), then the call of buildTransfer
GetSourceFeeBuild ==
    /\ pc = "gsf_service"
    /\ op = "getSourceFee"
    /\ LET decimals == AssetDecimals(loc.polkadot, args.dstFee.asset)
           b == buildTransfer(args.amount, args.dstAddress, args.dstFee,
                              args.transferConfig)
       IN  IF decimals = NoDecimals
           THEN Throw("AssetNotFoundError") /\ UNCHANGED <<loc, trace>>
           ELSE /\ trace' = trace \o b.events
                /\ IF b.ok
                   THEN /\ loc' = [loc EXCEPT !.decimals = decimals,
                                              !.transfer = b.transfer]
                        /\ pc' = "gsf_built"
                        /\ UNCHANGED result
                   ELSE /\ loc' = [loc EXCEPT !.decimals = decimals]
                        /\ Throw(b.error)
    /\ UNCHANGED <<others, evmChains, evmCliets, op, args>>

\* the estimator getSourceFee chooses for the built call
FeeEstimator(transfer) ==
    IF transfer.type = Evm THEN "XTokens.getFee" ELSE "polkadot.getFee"

\* buildTransfer has settled: dispatch to a fee estimator
GetSourceFeeEstimate ==
    /\ pc = "gsf_built"
    /\ op = "getSourceFee"
    /\ IF FeeEstimator(loc.transfer) = "XTokens.getFee"
       THEN IF args.transferConfig.source.chain \in evmCliets
            THEN /\ trace' = Append(trace,
                        Event("estimator", [estimator |-> "XTokens.getFee",
                                            transfer |-> loc.transfer,
                                            amount |-> args.amount,
                                            address |-> "none"]))
                 /\ pc' = "gsf_fee"
                 /\ UNCHANGED result
            ELSE Throw("TypeError") /\ UNCHANGED trace
       ELSE /\ trace' = Append(trace,
                   Event("estimator", [estimator |-> "polkadot.getFee",
                                       transfer |-> loc.transfer,
                                       amount |-> NoAmount,
                                       address |-> args.address]))
            /\ pc' = "gsf_fee"
            /\ UNCHANGED result
    /\ UNCHANGED <<others, evmChains, evmCliets, op, args, loc>>

SourceFeeAmountUnscaled(estimator, raw, decimals) == raw

\* the fee getSourceFee reports for the raw fee an estimator returned
SourceFeeAmount(estimator, raw, decimals) ==
    IF estimator = "XTokens.getFee"
    THEN convertDecimals(raw, EvmDecimals, decimals)
    ELSE raw

\* the asset getSourceFee labels its result with
SourceFeeAsset(dstFee, tc) == dstFee.asset

GetSourceFeeFinish ==
    /\ pc = "gsf_fee"
    /\ op = "getSourceFee"
    /\ \/ \E raw \in RawFees :
            /\ trace' = Append(trace, Event("estimate", [raw |-> raw]))
            /\ Return(AssetAmountFromAsset(
                   SourceFeeAsset(args.dstFee, args.transferConfig),
                   SourceFeeAmount(trace[Len(trace)].detail.estimator, raw, loc.decimals),
                   loc.decimals))
       \/ /\ Throw("FeeEstimationError")
          /\ UNCHANGED trace
    /\ UNCHANGED <<others, evmChains, evmCliets, op, args, loc>>

----------------------------------------------------------------------------
(* getSourceData(srcAddr, srcChain, dstAddr, dstChain, asset) *)

\* getTransferConfig(srcChain, dstChain, asset): the routes the config
\* service has for the triple; building fails when it has none
getTransferConfig(srcChain, dstChain, asset) ==
    {tc \in Routes : /\ tc.source.chain = srcChain
                     /\ tc.destination.chain = dstChain
                     /\ tc.asset = asset}

\* the orchestrator has no call in progress
FrameIdle ==
    /\ op' = "none"
    /\ pc' = "idle"
    /\ args' = NoArgs
    /\ loc' = NoLoc
    /\ trace' = <<>>
    /\ result' = NoResult

GetSourceDataStart ==
    /\ pc = "idle"
    /\ outer.op = "none"
    /\ \E srcAddr \in Addresses, dstAddr \in DstAddresses,
          srcChain \in Chains, dstChain \in Chains, asset \in Assets :
        LET o == [NoOuter EXCEPT !.op = "getSourceData", !.srcAddr = srcAddr,
                                 !.dstAddr = dstAddr, !.resolved = 1]
        IN  IF getTransferConfig(srcChain, dstChain, asset) = {}
            THEN /\ outer' = [o EXCEPT !.stage = "done", !.status = "error",
                                       !.error = "ConfigNotFoundError"]
                 /\ UNCHANGED <<op, pc, args, loc, trace, result>>
            ELSE \E tc \in getTransferConfig(srcChain, dstChain, asset) :
                    /\ outer' = [o EXCEPT !.stage = "balance", !.transferConfig = tc,
                                          !.steps = <<"getBalance">>]
                    /\ GetBalanceBegin(srcAddr, tc)
    /\ UNCHANGED <<evmChains, evmCliets, conv, sub, parked>>

SourceDataAfterSwallow(o, res) ==
    LET value == IF res.status = "error" THEN NoAssetAmount ELSE res.value
    IN  CASE o.stage = "balance" ->
                [o EXCEPT !.balance = value, !.stage = "feeBalance",
                          !.steps = Append(@, "getFeeBalance")]
          [] o.stage = "feeBalance" ->
                [o EXCEPT !.feeBalance = value, !.stage = "destinationFee",
                          !.steps = Append(@, "getDestinationFee")]
          [] o.stage = "destinationFee" ->
                [o EXCEPT !.destinationFee = value, !.stage = "sourceFee",
                          !.console = <<o.balance, o.feeBalance, value>>,
                          !.steps = Append(@, "getSourceFee")]
          [] OTHER ->
                [o EXCEPT !.sourceFee = value, !.stage = "done",
                          !.console = Append(@, value), !.status = "ok"]

\* getSourceData after the awaited step has settled with `res': a rejection
\* rejects getSourceData, a value is kept and the next step is due; after
\* the last step the function ends without a return statement
SourceDataAfter(o, res) ==
    IF res.status = "error"
    THEN [o EXCEPT !.stage = "done", !.status = "error", !.error = res.error]
    ELSE CASE o.stage = "balance" ->
                [o EXCEPT !.balance = res.value, !.stage = "feeBalance",
                          !.steps = Append(@, "getFeeBalance")]
          [] o.stage = "feeBalance" ->
                [o EXCEPT !.feeBalance = res.value, !.stage = "destinationFee",
                          !.steps = Append(@, "getDestinationFee")]
          [] o.stage = "destinationFee" ->
                [o EXCEPT !.destinationFee = res.value, !.stage = "sourceFee",
                          !.console = <<o.balance, o.feeBalance, res.value>>,
                          !.steps = Append(@, "getSourceFee")]
          [] OTHER ->
                [o EXCEPT !.sourceFee = res.value, !.stage = "done",
                          !.console = Append(@, res.value), !.status = "ok"]

GetSourceDataContinue ==
    /\ outer.op = "getSourceData"
    /\ outer.stage \in {"balance", "feeBalance", "destinationFee", "sourceFee"}
    /\ pc = "done"
    /\ LET o == SourceDataAfter(outer, result)
       IN  /\ outer' = o
           /\ CASE o.stage = "feeBalance" ->
                      GetFeeBalanceBegin(o.srcAddr, o.transferConfig)
                [] o.stage = "destinationFee" ->
                      GetDestinationFeeBegin(o.transferConfig)
                [] o.stage = "sourceFee" ->
                      GetSourceFeeBegin(o.balance.amount, o.srcAddr, o.dstAddr,
                                        o.destinationFee, o.transferConfig)
                [] OTHER -> FrameIdle
    /\ UNCHANGED <<evmChains, evmCliets, conv, sub, parked>>

\* the caller takes the settled promise of getSourceData
GetSourceDataSettle ==
    /\ outer.op = "getSourceData"
    /\ outer.stage = "done"
    /\ outer' = NoOuter
    /\ UNCHANGED <<evmChains, evmCliets, op, pc, args, loc, trace, result, conv,
                   sub, parked>>

NextSourceData ==
    \/ GetSourceDataStart
    \/ GetSourceDataContinue
    \/ GetSourceDataSettle
    \/ GetBalanceResolved
    \/ GetBalanceFinish
    \/ GetFeeBalanceResolved
    \/ GetFeeBalanceFinish
    \/ GetDestinationFeeResolve
    \/ GetDestinationFeeFinish
    \/ GetSourceFeeBuild
    \/ GetSourceFeeEstimate
    \/ GetSourceFeeFinish

SpecSourceData == Init /\ [][NextSourceData]_vars

----------------------------------------------------------------------------

Next ==
    \/ GetBalanceStart
    \/ GetBalanceResolved
    \/ GetBalanceFinish
    \/ GetFeeBalanceStart
    \/ GetFeeBalanceResolved
    \/ GetFeeBalanceFinish
    \/ GetDestinationFeeStart
    \/ GetDestinationFeeResolve
    \/ GetDestinationFeeFinish
    \/ GetSourceFeeStart
    \/ GetSourceFeeBuild
    \/ GetSourceFeeEstimate
    \/ GetSourceFeeFinish
    \/ Settle

Spec == Init /\ [][Next]_vars

----------------------------------------------------------------------------
(* subscribeBalance(address, chain, chainConfig) *)

\* cap on the updates the underlying mechanisms produce
MaxUpdates == 3

\* chainConfig.getAssetsConfigs(): the assets configured for the chain, each
\* with the builder of its balance configuration
AssetsConfigs == [asset : Assets, balance : CallTypes]

ChainConfigs ==
    {<<>>} \cup {<<e>> : e \in AssetsConfigs}
           \cup {c \in {<<e, f>> : e \in AssetsConfigs, f \in AssetsConfigs} :
                    c[1].asset # c[2].asset}

getBalanceConfigs(srcAddr, srcChain, srcChainConfig) ==
    [i \in 1..Len(srcChainConfig) |->
        [key |-> srcChainConfig[i].asset,
         config |-> BuildBalanceConfig(srcChainConfig[i].balance, srcAddr,
                        getBalanceAssetId(srcChain, srcChainConfig[i].asset))]]

IsEvmConfig(c) == c.config.type = Evm

IsSubstrateConfig(c) == c.config.type = Substrate

\* new Erc20BalanceObservable(evmClient, config).for(asset)
subscribeErc20Balance(asset, config, chain) ==
    [key |-> asset, resolver |-> "erc20", chain |-> chain, config |-> config,
     state |-> "cold", started |-> 0]

\* new SubstrateBalanceObservable(api, config).for(asset)
subscribeSubstrateBalance(asset, config, chain) ==
    [key |-> asset, resolver |-> "substrate", chain |-> chain, config |-> config,
     state |-> "cold", started |-> 0]

mergeRestOnly(erc20Observables, rest) == rest

\* merge(...erc20Observables, ...rest)
merge(erc20Observables, rest) == erc20Observables \o rest

\* the synchronous part: the balance configurations are built and filtered by
\* tag, the Evm ones are turned into streams at once (getEvmClient may throw),
\* the Substrate ones wait for their chain connection
SubscribeBalanceBegin(address, chain, chainConfig) ==
    LET configs == getBalanceConfigs(address, chain, chainConfig)
        evm == SelectSeq(configs, IsEvmConfig)
        sbs == SelectSeq(configs, IsSubstrateConfig)
        s == [NoSub EXCEPT !.address = address, !.chain = chain,
                           !.chainConfig = chainConfig, !.configs = configs]
    IN  IF evm # <<>> /\ ~HasEvmClient(chain)
        THEN sub' = [s EXCEPT !.phase = "rejected",
                              !.error = "NoEvmConfiguration"]
        ELSE sub' = [s EXCEPT
                !.phase = "pending",
                !.erc20Observables =
                    [i \in 1..Len(evm) |->
                        subscribeErc20Balance(evm[i].key, evm[i].config, chain)],
                !.substrateObservables =
                    [i \in 1..Len(sbs) |->
                        subscribeSubstrateBalance(sbs[i].key, sbs[i].config,
                                                  chain)]]

SubscribeBalanceStart ==
    /\ sub.phase = "idle"
    /\ \E address \in Addresses, chain \in Chains, chainConfig \in ChainConfigs :
        SubscribeBalanceBegin(address, chain, chainConfig)
    /\ UNCHANGED <<evmChains, evmCliets, op, pc, args, loc, trace, result, outer,
                   conv, parked>>

\* await Promise.all(substrateObservables): every chain connection is up and
\* the merged stream is returned, or a connection fails and the call rejects
SubscribeBalanceResolved ==
    /\ sub.phase = "pending"
    /\ \/ sub' = [sub EXCEPT !.phase = "returned",
                             !.merged = merge(sub.erc20Observables,
                                              sub.substrateObservables)]
       \/ /\ sub.substrateObservables # <<>>
          /\ sub' = [sub EXCEPT !.phase = "rejected", !.error = "ApiError"]
    /\ UNCHANGED <<evmChains, evmCliets, op, pc, args, loc, trace, result, outer,
                   conv, parked>>

\* subscribing to a balance stream starts its underlying subscription
StreamSubscribe(stream) ==
    [stream EXCEPT !.state = "subscribed", !.started = @ + 1]

\* cancelling a balance stream stops its underlying subscription
StreamUnsubscribe(stream) == [stream EXCEPT !.state = "cancelled"]

\* the merged stream subscribes to all of its sources at once
MergeSubscribe(streams) ==
    [i \in 1..Len(streams) |-> StreamSubscribe(streams[i])]

MergeUnsubscribeErc20(streams) ==
    [i \in 1..Len(streams) |->
        IF streams[i].resolver = "erc20"
        THEN StreamUnsubscribe(streams[i]) ELSE streams[i]]

\* unsubscribing from the merged stream unsubscribes from all of its sources
MergeUnsubscribe(streams) ==
    [i \in 1..Len(streams) |-> StreamUnsubscribe(streams[i])]

\* the consumer subscribes to the merged stream
ConsumerSubscribe ==
    /\ sub.phase = "returned"
    /\ sub' = [sub EXCEPT !.phase = "active", !.merged = MergeSubscribe(@)]
    /\ UNCHANGED <<evmChains, evmCliets, op, pc, args, loc, trace, result, outer,
                   conv, parked>>

\* a value of source i reaches the consumer of the merged stream
Delivers(s, i) == s.phase = "active" /\ s.merged[i].state = "subscribed"

\* the mechanism behind source i sees a change of the balance (a new block,
\* an event log): the value is passed on without buffering
BalanceUpdate ==
    /\ sub.phase \in {"active", "cancelled"}
    /\ sub.updates < MaxUpdates
    /\ \E i \in 1..Len(sub.merged), b \in RawBalances :
        sub' = [sub EXCEPT
                  !.updates = @ + 1,
                  !.late = IF sub.phase = "cancelled" THEN @ + 1 ELSE @,
                  !.delivered =
                      IF Delivers(sub, i)
                      THEN Append(@, [key |-> sub.merged[i].key, balance |-> b])
                      ELSE @]
    /\ UNCHANGED <<evmChains, evmCliets, op, pc, args, loc, trace, result, outer,
                   conv, parked>>

\* the consumer cancels the merged stream
ConsumerCancel ==
    /\ sub.phase = "active"
    /\ sub' = [sub EXCEPT !.phase = "cancelled", !.merged = MergeUnsubscribe(@)]
    /\ UNCHANGED <<evmChains, evmCliets, op, pc, args, loc, trace, result, outer,
                   conv, parked>>

\* the caller lets go of a rejected call, or of the stream it was returned
SubscribeBalanceDrop ==
    /\ sub.phase \in {"rejected", "returned", "cancelled"}
    /\ sub' = NoSub
    /\ UNCHANGED <<evmChains, evmCliets, op, pc, args, loc, trace, result, outer,
                   conv, parked>>

NextSubscribe ==
    \/ SubscribeBalanceStart
    \/ SubscribeBalanceResolved
    \/ ConsumerSubscribe
    \/ BalanceUpdate
    \/ ConsumerCancel
    \/ SubscribeBalanceDrop

SpecSubscribe == Init /\ [][NextSubscribe]_vars

----------------------------------------------------------------------------
(* Two calls in flight: while one call waits at an await, the caller may   *)
(* start or resume another one.                                            *)

\* the routes the caller uses while two calls are in flight
ConcurrentRoutes ==
    {tc \in Routes :
        /\ tc.asset = "X"
        /\ tc.source.config.fee.present
        /\ tc.source.config.fee.asset = "X"
        /\ tc.source.config.fee.balance = Substrate
        /\ tc.source.config.destinationFee.asset = "X"
        /\ tc.source.config.destinationFee.amount.kind = "builder"
        /\ tc.source.config.extrinsic # tc.source.config.contract
        /\ tc.source.config.contract <=> tc.source.config.balance = Evm}

\* the call the orchestrator is running
Frame ==
    [op |-> op, pc |-> pc, args |-> args, loc |-> loc, trace |-> trace,
     result |-> result]

EvmClientsAfterLazy(clients, events) ==
    clients \cup {events[i].detail.chain : i \in
                    {j \in 1..Len(events) : /\ events[j].kind = "resolver"
                                            /\ events[j].detail.resolver = "erc20"}}

\* the client table after the getEvmClient lookups of a call: a lookup reads
\* the table, a miss throws and creates nothing
EvmClientsAfter(clients, events) == clients

ConcurrentGetBalance ==
    /\ pc = "idle"
    /\ \E address \in Addresses, tc \in ConcurrentRoutes :
        GetBalanceBegin(address, tc)
    /\ evmCliets' = EvmClientsAfter(evmCliets, trace')
    /\ UNCHANGED <<others, evmChains>>

ConcurrentGetFeeBalance ==
    /\ pc = "idle"
    /\ \E address \in Addresses, tc \in ConcurrentRoutes :
        GetFeeBalanceBegin(address, tc)
    /\ evmCliets' = EvmClientsAfter(evmCliets, trace')
    /\ UNCHANGED <<others, evmChains>>

ConcurrentGetDestinationFee ==
    /\ pc = "idle"
    /\ \E tc \in ConcurrentRoutes :
        GetDestinationFeeBegin(tc)
    /\ evmCliets' = EvmClientsAfter(evmCliets, trace')
    /\ UNCHANGED <<others, evmChains>>

ConcurrentGetSourceFee ==
    /\ pc = "idle"
    /\ \E amount \in Amounts, srcAddress \in Addresses, dstAddress \in DstAddresses,
          tc \in ConcurrentRoutes :
        GetSourceFeeBegin(amount, srcAddress, dstAddress,
                          [asset |-> "X", amount |-> <<7>>, decimals |-> 12], tc)
    /\ evmCliets' = EvmClientsAfter(evmCliets, trace')
    /\ UNCHANGED <<others, evmChains>>

\* the chain configurations the caller uses while calls are in flight
ConcurrentChainConfigs == {c \in ChainConfigs : Len(c) = 1}

ConcurrentSubscribeBalance ==
    /\ sub.phase = "idle"
    /\ \E address \in Addresses, chain \in Chains,
          chainConfig \in ConcurrentChainConfigs :
        SubscribeBalanceBegin(address, chain, chainConfig)
    /\ UNCHANGED <<evmChains, evmCliets, op, pc, args, loc, trace, result, outer,
                   conv, parked>>

\* the running call is suspended at its await (or has not been taken by the
\* caller yet) and the other call goes on with its own arguments and locals
Switch ==
    /\ Frame # parked
    /\ parked' = Frame
    /\ op' = parked.op
    /\ pc' = parked.pc
    /\ args' = parked.args
    /\ loc' = parked.loc
    /\ trace' = parked.trace
    /\ result' = parked.result
    /\ UNCHANGED <<evmChains, evmCliets, outer, conv, sub>>

NextConcurrent ==
    \/ ConcurrentGetBalance
    \/ ConcurrentGetFeeBalance
    \/ ConcurrentGetDestinationFee
    \/ ConcurrentGetSourceFee
    \/ Switch
    \/ GetBalanceResolved
    \/ GetBalanceFinish
    \/ GetFeeBalanceResolved
    \/ GetFeeBalanceFinish
    \/ GetDestinationFeeResolve
    \/ GetDestinationFeeFinish
    \/ GetSourceFeeBuild
    \/ GetSourceFeeEstimate
    \/ GetSourceFeeFinish
    \/ Settle
    \/ ConcurrentSubscribeBalance
    \/ SubscribeBalanceResolved
    \/ SubscribeBalanceDrop

SpecConcurrent == Init /\ [][NextConcurrent]_vars

----------------------------------------------------------------------------
(* The decimal normalizer on its own: convert(amount, from, to) applied to *)
(* an amount, and again to the outcome with the decimals swapped.          *)

MaxAmount == 1100
MaxDecimals == 3

RECURSIVE ToDigits(_)
ToDigits(n) == IF n < 10 THEN <<n>> ELSE Append(ToDigits(n \div 10), n % 10)

RECURSIVE Value(_)
Value(ds) ==
    IF ds = <<>> THEN 0
    ELSE 10 * Value(SubSeq(ds, 1, Len(ds) - 1)) + ds[Len(ds)]

\* convert(amount, fromDecimals, toDecimals): rejects a negative amount,
\* otherwise scales by the difference of the decimals, truncating
convert(amount, from, to) ==
    IF amount.neg
    THEN [ok |-> FALSE, value |-> NoAmount, error |-> "InvalidAmountError"]
    ELSE [ok |-> TRUE, value |-> convertDecimals(amount.digits, from, to),
          error |-> "none"]

InitConvert ==
    /\ evmChains = {}
    /\ evmCliets = evmChains
    /\ op = "none"
    /\ pc = "idle"
    /\ args = NoArgs
    /\ loc = NoLoc
    /\ trace = <<>>
    /\ result = NoResult
    /\ outer = NoOuter
    /\ sub = NoSub
    /\ parked = NoFrame
    /\ \E n \in 0..MaxAmount, neg \in BOOLEAN, d1 \in 0..MaxDecimals, d2 \in 0..MaxDecimals :
        /\ neg => n > 0
        /\ conv = [NoConv EXCEPT !.stage = "input",
                                 !.amount = [neg |-> neg, digits |-> ToDigits(n)],
                                 !.from = d1, !.to = d2]

\* convert(n, d1, d2)
ConvertThere ==
    /\ conv.stage = "input"
    /\ LET r == convert(conv.amount, conv.from, conv.to)
       IN  conv' = IF r.ok
                   THEN [conv EXCEPT !.stage = "there", !.there = r.value]
                   ELSE [conv EXCEPT !.stage = "failed", !.error = r.error]
    /\ UNCHANGED <<evmChains, evmCliets, op, pc, args, loc, trace, result, outer,
                   sub, parked>>

\* convert(convert(n, d1, d2), d2, d1)
ConvertBack ==
    /\ conv.stage = "there"
    /\ LET r == convert([neg |-> FALSE, digits |-> conv.there], conv.to, conv.from)
       IN  conv' = IF r.ok
                   THEN [conv EXCEPT !.stage = "back", !.back = r.value]
                   ELSE [conv EXCEPT !.stage = "failed", !.error = r.error]
    /\ UNCHANGED <<evmChains, evmCliets, op, pc, args, loc, trace, result, outer,
                   sub, parked>>

NextConvert ==
    \/ ConvertThere
    \/ ConvertBack

SpecConvert == InitConvert /\ [][NextConvert]_vars

----------------------------------------------------------------------------
(* Vocabulary of the properties *)

TC == args.transferConfig
SourceConfig == TC.source.config

EventsOf(kind) == {i \in 1..Len(trace) : trace[i].kind = kind}

MissingBuilderError == "Either contract or extrinsic must be provided"

\* f * 10^d for a decimal f with at most d fractional digits
ScaleUp(f, d) == Normalize(f.int \o f.frac \o Zeros(d - Len(f.frac)))

\* n div 10^k
ScaleDown(n, k) == IF Len(n) <= k THEN <<0>> ELSE SubSeq(n, 1, Len(n) - k)

----------------------------------------------------------------------------
(* C1: in getSourceFee a fee estimator is invoked only after buildTransfer *)
(* has produced the transfer call for the same parameters, and it is that  *)
(* call the estimator is given; when buildTransfer fails no estimator is   *)
(* invoked and getSourceFee fails.                                         *)
C1_EstimateAfterBuild ==
    op = "getSourceFee" =>
        /\ \A i \in EventsOf("estimator") :
              \E j \in EventsOf("builder") :
                  /\ j < i
                  /\ trace[j].detail.built = trace[i].detail.transfer
                  /\ trace[j].detail.params.amount = args.amount
                  /\ trace[j].detail.params.fee = args.dstFee.amount
                  /\ trace[j].detail.params.address = args.dstAddress
        /\ (~SourceConfig.extrinsic /\ ~SourceConfig.contract) =>
              /\ EventsOf("estimator") = {}
              /\ pc \in {"gsf_service", "done"}
              /\ pc = "done" => result.status = "error"
        /\ result.error = MissingBuilderError =>
              EventsOf("estimator") = {} /\ result.status = "error"

C1_Witness ==
    /\ op = "getSourceFee"
    /\ pc = "gsf_fee"
    /\ EventsOf("builder") = {2}
    /\ EventsOf("estimator") = {3}

(* C2: getBalance invokes exactly one balance resolver, the one named by   *)
(* the tag of the built balance configuration: Evm gives the contract-call *)
(* resolver, Substrate the chain-query resolver, whatever the chain and    *)
(* the asset are.                                                          *)
C2_BalanceDispatchByTag ==
    op = "getBalance" =>
        /\ Len(trace) = 1
        /\ trace[1].kind = "resolver"
        /\ trace[1].detail.config.type = SourceConfig.balance
        /\ SourceConfig.balance = Evm => trace[1].detail.resolver = "erc20"
        /\ SourceConfig.balance = Substrate => trace[1].detail.resolver = "substrate"

C2_Witness ==
    /\ op = "getBalance"
    /\ result.status = "ok"
    /\ SourceConfig.balance = Substrate
    /\ isEvmParachain(TC.source.chain)
    /\ trace[1].detail.resolver = "substrate"

(* C3: getFeeBalance never invokes the contract-call resolver, and a fee   *)
(* balance configuration tagged Evm is rejected as a configuration error   *)
(* instead of being run through the chain-query resolver.                  *)
C3_FeeBalanceRejectsEvm ==
    op = "getFeeBalance" =>
        /\ \A i \in EventsOf("resolver") : trace[i].detail.resolver # "erc20"
        /\ (SourceConfig.fee.present /\ SourceConfig.fee.balance = Evm) =>
              /\ EventsOf("resolver") = {}
              /\ pc = "done" => result.status = "error"

(* C4: for a route without a fee asset getFeeBalance makes no balance      *)
(* query and returns amount 0 of the transfer asset at the transfer        *)
(* asset's decimals on the source chain.                                   *)
C4_NoFeeAssetZero ==
    (op = "getFeeBalance" /\ ~SourceConfig.fee.present) =>
        /\ trace = <<>>
        /\ result.status = "ok" =>
              result.value = [asset |-> TC.asset, amount |-> <<0>>,
                              decimals |-> AssetDecimals(TC.source.chain, TC.asset)]
        /\ (pc = "done" /\ AssetDecimals(TC.source.chain, TC.asset) # NoDecimals) =>
              result.status = "ok"

C4_Witness ==
    /\ op = "getFeeBalance"
    /\ ~SourceConfig.fee.present
    /\ result.status = "ok"
    /\ result.value.amount = <<0>>
    /\ result.value.decimals = 12

(* C5: for a route whose fee asset differs from the transfer asset,        *)
(* getFeeBalance queries the fee asset: the query carries the fee asset's  *)
(* balance id, the Balance is keyed by the fee asset, and the returned     *)
(* AssetAmount is of the fee asset.                                        *)
C5_FeeBalanceQueriesFeeAsset ==
    (op = "getFeeBalance" /\ SourceConfig.fee.present
        /\ SourceConfig.fee.asset # TC.asset) =>
        /\ \A i \in EventsOf("resolver") :
              /\ trace[i].detail.key = SourceConfig.fee.asset
              /\ trace[i].detail.config.asset =
                    getBalanceAssetId(TC.source.chain, SourceConfig.fee.asset)
        /\ loc.balance # NoBalance => loc.balance.key = SourceConfig.fee.asset
        /\ result.status = "ok" => result.value.asset = SourceConfig.fee.asset

(* C6: with a fixed finite destination fee f, getDestinationFee returns    *)
(* f * 10^d of the fee asset, d being the fee asset's decimals on the      *)
(* destination chain (5.0 at 12 decimals is 5_000_000_000_000), and never  *)
(* invokes a dynamic fee descriptor.                                       *)
C6_FixedDestinationFee ==
    (op = "getDestinationFee" /\ SourceConfig.destinationFee.amount.kind = "number") =>
        LET fee == SourceConfig.destinationFee
            d   == AssetDecimals(TC.destination.chain, fee.asset)
        IN  /\ EventsOf("feeCall") = {}
            /\ (pc = "done" /\ d # NoDecimals) => result.status = "ok"
            /\ result.status = "ok" =>
                  /\ result.value = [asset |-> fee.asset,
                                     amount |-> ScaleUp(fee.amount.value, d),
                                     decimals |-> d]
                  /\ (fee.amount.value = [int |-> <<5>>, frac |-> <<>>] /\ d = 12) =>
                        result.value.amount = <<5, 0, 0, 0, 0, 0, 0, 0, 0, 0, 0, 0, 0>>

C6_Witness ==
    /\ op = "getDestinationFee"
    /\ SourceConfig.destinationFee.amount = [kind |-> "number",
                                             value |-> [int |-> <<5>>, frac |-> <<>>]]
    /\ result.status = "ok"
    /\ result.value.decimals = 12
    /\ result.value.amount = <<5, 0, 0, 0, 0, 0, 0, 0, 0, 0, 0, 0, 0>>

(* C7: with a dynamic destination fee, a getDestinationFee call invokes    *)
(* the descriptor at most once and, when it returns, exactly once; the     *)
(* descriptor is given the client of the destination chain that this call  *)
(* obtained before, and the call returns the value of that invocation.     *)
C7_DynamicDestinationFee ==
    (op = "getDestinationFee" /\ SourceConfig.destinationFee.amount.kind = "builder") =>
        /\ Cardinality(EventsOf("feeCall")) <= 1
        /\ \A i \in EventsOf("feeCall") :
              /\ trace[i].detail.api = TC.destination.chain
              /\ trace[i].detail.asset =
                    getAssetId(TC.destination.chain, SourceConfig.destinationFee.asset)
              /\ \E j \in EventsOf("service") :
                    j < i /\ trace[j].detail.chain = TC.destination.chain
        /\ result.status = "ok" =>
              \E i \in EventsOf("feeCall") :
                  /\ trace[i].detail.value # NoAmount
                  /\ result.value.amount = trace[i].detail.value
                  /\ result.value.asset = SourceConfig.destinationFee.asset

C7_Witness ==
    /\ op = "getDestinationFee"
    /\ SourceConfig.destinationFee.amount.kind = "builder"
    /\ result.status = "ok"
    /\ result.value.amount = <<4, 2>>
    /\ EventsOf("feeCall") = {2}

(* C8 as stated: getSourceFee returns the fee in the source chain's native *)
(* currency at the native decimals: for a call tagged Evm the raw          *)
(* 18-decimal fee scaled down to the native decimals, with                 *)
(* 21_000_000_000_000_000 at 12 native decimals giving 21_000_000;         *)
(* otherwise the raw fee unscaled.                                         *)
C8_SourceFeeNative ==
    (op = "getSourceFee" /\ result.status = "ok") =>
        LET native == NativeAsset(TC.source.chain)
            d      == AssetDecimals(TC.source.chain, native)
            raw    == trace[Len(trace)].detail.raw
        IN  /\ result.value.asset = native
            /\ result.value.decimals = d
            /\ result.value.amount =
                  IF loc.transfer.type = Evm
                  THEN ScaleDown(raw, EvmDecimals - d)
                  ELSE raw
            /\ (loc.transfer.type = Evm /\ raw = Num(<<2, 1>>, 15) /\ d = 12) =>
                  result.value.amount = <<2, 1, 0, 0, 0, 0, 0, 0>>

(* C8 amended: getSourceFee returns an amount of the destination-fee asset *)
(* it was given, at the decimals d that asset has on the source chain: for *)
(* a call tagged Evm the raw 18-decimal fee divided by 10^(18-d), rounded  *)
(* down, with 21_000_000_000_000_000 at d = 12 giving 21_000_000_000;      *)
(* otherwise the raw fee unscaled.                                         *)
C8_SourceFeeOfDstFeeAsset ==
    (op = "getSourceFee" /\ result.status = "ok") =>
        LET d   == AssetDecimals(TC.source.chain, args.dstFee.asset)
            raw == trace[Len(trace)].detail.raw
        IN  /\ result.value.asset = args.dstFee.asset
            /\ result.value.decimals = d
            /\ result.value.amount =
                  IF loc.transfer.type = Evm
                  THEN ScaleDown(raw, EvmDecimals - d)
                  ELSE raw
            /\ (loc.transfer.type = Evm /\ raw = Num(<<2, 1>>, 15) /\ d = 12) =>
                  result.value.amount = <<2, 1, 0, 0, 0, 0, 0, 0, 0, 0, 0>>

C8_Witness ==
    /\ op = "getSourceFee"
    /\ result.status = "ok"
    /\ loc.transfer.type = Evm
    /\ trace[Len(trace)].detail.raw = Num(<<2, 1>>, 15)
    /\ result.value.decimals = 12
    /\ result.value.amount = <<2, 1, 0, 0, 0, 0, 0, 0, 0, 0, 0>>

(* C9: buildTransfer invokes the one builder that is present when exactly  *)
(* one of the extrinsic and contract builders is present, and with neither *)
(* present it invokes no builder and fails with the missing-builder error. *)
C9_ExactlyOneBuilder ==
    (op = "getSourceFee" /\ loc.decimals # NoDecimals) =>
        /\ (SourceConfig.extrinsic /\ ~SourceConfig.contract) =>
              /\ Cardinality(EventsOf("builder")) = 1
              /\ \A i \in EventsOf("builder") : trace[i].detail.builder = "extrinsic"
        /\ (~SourceConfig.extrinsic /\ SourceConfig.contract) =>
              /\ Cardinality(EventsOf("builder")) = 1
              /\ \A i \in EventsOf("builder") : trace[i].detail.builder = "contract"
        /\ (~SourceConfig.extrinsic /\ ~SourceConfig.contract) =>
              /\ EventsOf("builder") = {}
              /\ pc = "done"
              /\ result.status = "error"
              /\ result.error = MissingBuilderError

C9_Witness ==
    /\ op = "getSourceFee"
    /\ ~SourceConfig.extrinsic
    /\ SourceConfig.contract
    /\ EventsOf("builder") = {2}
    /\ trace[2].detail.builder = "contract"
    /\ loc.transfer.builder = "contract"

\* what both builders are given
CommonParams(p) ==
    /\ p.destination = TC.destination.chain
    /\ p.asset = getAssetId(TC.source.chain, TC.asset)
    /\ p.amount = args.amount
    /\ p.feeAsset = getAssetId(TC.source.chain, args.dstFee.asset)
    /\ p.fee = args.dstFee.amount

(* C10 as stated: on both branches the builder is given the source chain,  *)
(* the destination chain, the asset id and the fee-asset id resolved on    *)
(* the source chain, the raw amount and the fee amount; the pallet         *)
(* instance is given on the extrinsic branch only.                         *)
C10_ParamsOnBothBranches ==
    op = "getSourceFee" =>
        \A i \in EventsOf("builder") :
            LET p == trace[i].detail.params
            IN  /\ CommonParams(p)
                /\ "source" \in DOMAIN p
                /\ p.source = TC.source.chain
                /\ ("palletInstance" \in DOMAIN p) <=> (trace[i].detail.builder = "extrinsic")

(* C10 amended: on both branches the builder is given the destination      *)
(* chain, the asset id and the fee-asset id resolved on the source chain,  *)
(* the raw amount and the fee amount; the source chain and the pallet      *)
(* instance are given on the extrinsic branch and only on that branch.     *)
C10_ParamsPerBranch ==
    op = "getSourceFee" =>
        \A i \in EventsOf("builder") :
            LET p == trace[i].detail.params
            IN  /\ CommonParams(p)
                /\ trace[i].detail.builder = "extrinsic" =>
                      /\ {"source", "palletInstance"} \subseteq DOMAIN p
                      /\ p.source = TC.source.chain
                      /\ p.palletInstance =
                            getAssetPalletInstance(TC.source.chain, TC.asset)
                /\ trace[i].detail.builder = "contract" =>
                      {"source", "palletInstance"} \cap DOMAIN p = {}

C10_Witness ==
    /\ op = "getSourceFee"
    /\ EventsOf("builder") = {2}
    /\ trace[2].detail.builder = "contract"
    /\ "source" \notin DOMAIN trace[2].detail.params
    /\ trace[2].detail.params.feeAsset = getAssetId(TC.source.chain, "Y")

(* C11: getBalance returns the raw balance of the selected resolver        *)
(* unchanged, with the decimals the asset has on the source chain,         *)
(* whatever its decimals on the destination chain are.                     *)
C11_BalanceRawAtSourceDecimals ==
    (op = "getBalance" /\ result.status = "ok") =>
        /\ loc.balance.key = TC.asset
        /\ loc.balance.balance \in RawBalances
        /\ result.value = [asset |-> TC.asset,
                           amount |-> loc.balance.balance,
                           decimals |-> AssetDecimals(TC.source.chain, TC.asset)]

C11_Witness ==
    /\ op = "getBalance"
    /\ result.status = "ok"
    /\ SourceConfig.balance = Substrate
    /\ TC.source.chain = "chainA"
    /\ AssetDecimals(TC.destination.chain, TC.asset) = 18
    /\ result.value.amount = <<1, 5, 0, 0>>
    /\ result.value.decimals = 12

(* C18: with both an extrinsic builder and a contract builder present,     *)
(* buildTransfer invokes the extrinsic builder only, returns the call it   *)
(* built and raises no error.                                              *)
C18_BothBuildersExtrinsicWins ==
    (op = "getSourceFee" /\ loc.decimals # NoDecimals
        /\ SourceConfig.extrinsic /\ SourceConfig.contract) =>
        /\ Cardinality(EventsOf("builder")) = 1
        /\ \A i \in EventsOf("builder") :
              /\ trace[i].detail.builder = "extrinsic"
              /\ loc.transfer = trace[i].detail.built
        /\ loc.transfer.type = Substrate
        /\ result.error # MissingBuilderError

C18_Witness ==
    /\ op = "getSourceFee"
    /\ SourceConfig.extrinsic
    /\ SourceConfig.contract
    /\ pc = "gsf_built"
    /\ EventsOf("builder") = {2}
    /\ loc.transfer.builder = "extrinsic"

RECURSIVE Pow10(_)
Pow10(k) == IF k = 0 THEN 1 ELSE 10 * Pow10(k - 1)

(* C12 as stated: convert(convert(n, d1, d2), d2, d1) <= n for n >= 0,     *)
(* with equality if and only if d2 >= d1; a negative amount fails with     *)
(* InvalidAmountError.                                                     *)
C12_RoundTripEqualIffUp ==
    /\ conv.stage = "back" =>
          /\ Value(conv.back) <= Value(conv.amount.digits)
          /\ (Value(conv.back) = Value(conv.amount.digits)) <=> (conv.to >= conv.from)
    /\ (conv.stage \in {"there", "back", "failed"} /\ conv.amount.neg) =>
          conv.stage = "failed" /\ conv.error = "InvalidAmountError"

(* C12 amended: convert(convert(n, d1, d2), d2, d1) <= n for n >= 0, with  *)
(* equality if and only if d2 >= d1 or n is a multiple of 10^(d1-d2); a    *)
(* negative amount fails with InvalidAmountError.                          *)
C12_RoundTripEqualIffExact ==
    /\ conv.stage = "back" =>
          LET n == Value(conv.amount.digits)
          IN  /\ Value(conv.back) <= n
              /\ (Value(conv.back) = n) <=>
                    \/ conv.to >= conv.from
                    \/ n % Pow10(conv.from - conv.to) = 0
              /\ conv.to < conv.from =>
                    Value(conv.back) = n - (n % Pow10(conv.from - conv.to))
    /\ (conv.stage \in {"there", "back", "failed"} /\ conv.amount.neg) =>
          conv.stage = "failed" /\ conv.error = "InvalidAmountError"
    /\ (conv.stage = "failed") => conv.amount.neg

C12_Witness ==
    /\ conv.stage = "back"
    /\ conv.from = 3
    /\ conv.to = 1
    /\ conv.amount.digits = <<1, 0, 4, 7>>
    /\ conv.there = <<1, 0>>
    /\ conv.back = <<1, 0, 0, 0>>

SourceDataSteps == <<"getBalance", "getFeeBalance", "getDestinationFee", "getSourceFee">>

(* C15: getSourceData returns the four values balance, feeBalance,         *)
(* destinationFee and sourceFee of the route; sourceFee is estimated for   *)
(* the amount balance.amount with destinationFee as destination fee, and   *)
(* every step works on the one transfer configuration resolved at the      *)
(* start of the call.                                                      *)
C15_SourceDataReturnsFour ==
    outer.op = "getSourceData" =>
        /\ outer.resolved = 1
        /\ op # "none" => args.transferConfig = outer.transferConfig
        /\ op = "getSourceFee" =>
              /\ args.amount = outer.balance.amount
              /\ args.dstFee = outer.destinationFee
        /\ outer.status = "ok" =>
              /\ outer.returned.defined
              /\ outer.returned.balance = outer.balance
              /\ outer.returned.feeBalance = outer.feeBalance
              /\ outer.returned.destinationFee = outer.destinationFee
              /\ outer.returned.sourceFee = outer.sourceFee

\* the values of the steps that have settled are the ones the steps returned
SourceDataKeeps(o, stage, value) ==
    CASE stage = "balance" -> o.balance = value
      [] stage = "feeBalance" -> o.feeBalance = value
      [] stage = "destinationFee" -> o.destinationFee = value
      [] OTHER -> o.sourceFee = value

(* C16: a failure of a step of getSourceData (route resolution,            *)
(* getBalance, getFeeBalance, getDestinationFee, getSourceFee) fails the   *)
(* whole call with that error: no later step is started, no step is        *)
(* started twice, and a step's value is never replaced by a default.       *)
C16_SourceDataFailsFast ==
    /\ [](outer.op = "getSourceData" =>
            /\ outer.steps = SubSeq(SourceDataSteps, 1, Len(outer.steps))
            /\ outer.error = "ConfigNotFoundError" =>
                  outer.steps = <<>> /\ outer.status = "error"
            /\ outer.status = "ok" =>
                  /\ outer.steps = SourceDataSteps
                  /\ NoAssetAmount \notin {outer.balance, outer.feeBalance,
                                           outer.destinationFee, outer.sourceFee}
            /\ outer.status = "error" => outer.stage = "done" /\ outer.error # "none")
    /\ [][(outer.op = "getSourceData" /\ pc = "done") =>
            IF result.status = "error"
            THEN /\ outer'.status = "error"
                 /\ outer'.error = result.error
                 /\ outer'.steps = outer.steps
                 /\ outer'.stage = "done"
                 /\ pc' = "idle"
            ELSE /\ outer'.status # "error"
                 /\ SourceDataKeeps(outer', outer.stage, result.value)]_vars

C16_Witness ==
    /\ outer.op = "getSourceData"
    /\ outer.status = "error"
    /\ outer.error = "BalanceQueryError"
    /\ outer.steps = <<"getBalance", "getFeeBalance">>
    /\ outer.balance.amount = <<1, 5, 0, 0>>
    /\ pc = "idle"

\* the resolver of an execution-mechanism tag
ResolverOf(tag) == IF tag = Evm THEN "erc20" ELSE "substrate"

\* the sources of the merged stream that belong to an asset
StreamsOf(asset) == {j \in 1..Len(sub.merged) : sub.merged[j].key = asset}

(* C13: the stream subscribeBalance returns has exactly one source for     *)
(* every asset configured for the chain, made by the resolver that matches *)
(* the tag of the asset's balance configuration, for the address and chain *)
(* of the call; a call that cannot do so is rejected with an error.        *)
C13_OneStreamPerAsset ==
    /\ sub.phase \in {"returned", "active", "cancelled"} =>
          /\ Len(sub.merged) = Len(sub.chainConfig)
          /\ \A i \in 1..Len(sub.chainConfig) :
                /\ Cardinality(StreamsOf(sub.chainConfig[i].asset)) = 1
                /\ \A j \in StreamsOf(sub.chainConfig[i].asset) :
                      /\ sub.merged[j].resolver = ResolverOf(sub.chainConfig[i].balance)
                      /\ sub.merged[j].config.type = sub.chainConfig[i].balance
                      /\ sub.merged[j].config.address = sub.address
                      /\ sub.merged[j].config.asset =
                            getBalanceAssetId(sub.chain, sub.chainConfig[i].asset)
                      /\ sub.merged[j].chain = sub.chain
    /\ sub.phase = "rejected" => sub.error # "none" /\ sub.merged = <<>>

C13_Witness ==
    /\ sub.phase = "returned"
    /\ Len(sub.chainConfig) = 2
    /\ sub.chainConfig[1].balance = Substrate
    /\ sub.chainConfig[2].balance = Evm
    /\ sub.merged[1].resolver = "erc20"
    /\ sub.merged[2].resolver = "substrate"

(* C14: once the consumer has cancelled the merged stream, every source    *)
(* of it is cancelled, and whatever updates the underlying mechanisms      *)
(* produce afterwards, the consumer is delivered no further Balance.       *)
C14_CancelStopsAll ==
    /\ [](sub.phase = "cancelled" =>
            \A i \in 1..Len(sub.merged) : sub.merged[i].state = "cancelled")
    /\ [][(sub.phase = "cancelled" /\ sub'.phase = "cancelled") =>
            sub'.delivered = sub.delivered]_vars

C14_Witness ==
    /\ sub.phase = "cancelled"
    /\ Len(sub.merged) = 2
    /\ sub.merged[1].resolver # sub.merged[2].resolver
    /\ Len(sub.delivered) >= 1
    /\ sub.late >= 1

OkResult(value) == [status |-> "ok", value |-> value, error |-> "none"]

ErrorResult(error) == [status |-> "error", value |-> NoAssetAmount, error |-> error]

\* what a settled call f returns when it runs alone: a function of its own
\* arguments, of the answers its own external calls were given, and of the
\* chains the orchestrator was constructed with
BalanceAlone(f) ==
    LET tc == f.args.transferConfig
        decimals == AssetDecimals(tc.source.chain, tc.asset)
    IN  IF tc.source.config.balance = Evm /\ tc.source.chain \notin evmChains
        THEN ErrorResult("NoEvmConfiguration")
        ELSE IF f.loc.balance = NoBalance THEN ErrorResult("BalanceQueryError")
        ELSE IF decimals = NoDecimals THEN ErrorResult("AssetNotFoundError")
        ELSE OkResult(AssetAmountFromAsset(tc.asset, f.loc.balance.balance, decimals))

FeeBalanceAlone(f) ==
    LET tc == f.args.transferConfig
        feeAsset == IF tc.source.config.fee.present
                    THEN tc.source.config.fee.asset ELSE tc.asset
        decimals == AssetDecimals(tc.source.chain, feeAsset)
    IN  IF f.loc.balance = NoBalance THEN ErrorResult("BalanceQueryError")
        ELSE IF decimals = NoDecimals THEN ErrorResult("AssetNotFoundError")
        ELSE OkResult(AssetAmountFromAsset(feeAsset, f.loc.balance.balance, decimals))

DestinationFeeAlone(f) ==
    LET tc == f.args.transferConfig
        fee == tc.source.config.destinationFee
        decimals == AssetDecimals(tc.destination.chain, fee.asset)
        last == f.trace[Len(f.trace)]
    IN  IF decimals = NoDecimals THEN ErrorResult("AssetNotFoundError")
        ELSE IF fee.amount.kind = "number"
        THEN OkResult(AssetAmountFromAsset(fee.asset,
                          toBigInt(fee.amount.value, decimals), decimals))
        ELSE IF fee.amount.kind # "builder" THEN ErrorResult("TypeError")
        ELSE IF last.detail.value = NoAmount THEN ErrorResult("FeeQueryError")
        ELSE OkResult(AssetAmountFromAsset(fee.asset, last.detail.value, decimals))

SourceFeeAlone(f) ==
    LET tc == f.args.transferConfig
        decimals == AssetDecimals(tc.source.chain, f.args.dstFee.asset)
        b == buildTransfer(f.args.amount, f.args.dstAddress, f.args.dstFee, tc)
        last == f.trace[Len(f.trace)]
    IN  IF decimals = NoDecimals THEN ErrorResult("AssetNotFoundError")
        ELSE IF ~b.ok THEN ErrorResult(b.error)
        ELSE IF /\ FeeEstimator(b.transfer) = "XTokens.getFee"
                /\ tc.source.chain \notin evmChains
        THEN ErrorResult("TypeError")
        ELSE IF last.kind # "estimate" THEN ErrorResult("FeeEstimationError")
        ELSE OkResult(AssetAmountFromAsset(f.args.dstFee.asset,
                          SourceFeeAmount(FeeEstimator(b.transfer), last.detail.raw,
                                          decimals),
                          decimals))

ResultAlone(f) ==
    CASE f.op = "getBalance" -> BalanceAlone(f)
      [] f.op = "getFeeBalance" -> FeeBalanceAlone(f)
      [] f.op = "getDestinationFee" -> DestinationFeeAlone(f)
      [] OTHER -> SourceFeeAlone(f)

\* subscribeBalance alone is rejected for want of a client exactly when an
\* asset of the chain is read through a contract and the chain was not
\* among the chains of the construction
SubscribeAloneRejects ==
    /\ \E i \in 1..Len(sub.chainConfig) : sub.chainConfig[i].balance = Evm
    /\ sub.chain \notin evmChains

(* C17: the execution clients are the ones made at construction, one per   *)
(* configured chain: whatever getBalance, getFeeBalance, getDestinationFee,*)
(* getSourceFee and subscribeBalance calls are in flight and however they  *)
(* interleave, the client table and the chain table never change, and      *)
(* every call settles with the result it has when it runs alone.           *)
C17_TablesFixedCallsIndependent ==
    /\ [](evmCliets = evmChains)
    /\ [][evmCliets' = evmCliets /\ evmChains' = evmChains]_vars
    /\ [](\A f \in {Frame, parked} : f.pc = "done" => f.result = ResultAlone(f))
    /\ [](sub.phase # "idle" =>
            (sub.error = "NoEvmConfiguration" <=> SubscribeAloneRejects))

C17_Witness ==
    /\ pc = "done"
    /\ op = "getBalance"
    /\ result.error = "NoEvmConfiguration"
    /\ parked.pc = "gsf_fee"
    /\ parked.args.transferConfig.source.chain = args.transferConfig.source.chain
    /\ parked.trace[Len(parked.trace)].detail.estimator = "polkadot.getFee"
    /\ sub.phase = "rejected"
    /\ sub.chain = args.transferConfig.source.chain

====
